---- MODULE Spec2Model ----
(***************************************************************************)
(* Model of the agent process manager of claude-radio                      *)
(* (src/src/agents/manager.py, src/src/agents/models.py).                  *)
(*                                                                         *)
(* The manager runs on one asyncio event loop: a coroutine runs without    *)
(* interruption from one suspension point (an await that really suspends)  *)
(* to the next.  Each action below is one such uninterrupted stretch.      *)
(*   - spawn_agent and direct_agent never suspend: the per-user            *)
(*     asyncio.Lock is only ever held over code without an await, so it is *)
(*     always free when it is acquired and acquiring it does not yield.    *)
(*   - stop_agent suspends once, in wait_for(shield(task), 5.0).           *)
(*   - _run_agent suspends in the executor (run_command) and in the        *)
(*     completion hook.                                                    *)
(***************************************************************************)
EXTENDS Naturals, Integers, Sequences, FiniteSets, TLC

\* ------------------------------------------------------------------ bounds
\* Largest agent_id a user is given in the main specification.
MaxId == 2
\* Run loops (asyncio tasks) of one record that can be alive at the same time.
MaxRuns == 2
\* stop_agent calls that can be suspended on the same task at the same time.
MaxWaiters == 1
\* stop_agent calls that find an active record, over a whole behaviour.
MaxStops == 1
\* direct_agent calls that respawn a record, over a whole behaviour.
MaxDirects == 1

AllUsers == {1, 2}
AllIds == 1..(MaxId + 1)
Keys == AllUsers \X AllIds
Runs == 1..MaxRuns
TaskIds == Keys \X Runs

\* Ceilings the manager is configured with (settings.max_concurrent_agents).
Ceilings == {1, 2}

NULL == "null"

\* AgentStatus (models.py:9-17)
STARTING == "starting"
RUNNING == "running"
COMPLETED == "completed"
FAILED == "failed"
AWAITING_APPROVAL == "awaiting_approval"
STOPPED == "stopped"
AgentStatus == {STARTING, RUNNING, COMPLETED, FAILED, AWAITING_APPROVAL, STOPPED}

\* Inputs: the texts passed by callers and the values the executor returns.
SpawnTask == "task"
DirectMessage == "followup"
Tokens == {"s1"}
Costs == {1}
Content == "content"
ExcText == "exc"
Activities == {"a1"}

VARIABLES
    max_concurrent, \* self.max_concurrent, set by the constructor
    heap,       \* key -> fields of the AgentProcess object created for it
    agents,     \* keys present in self._agents
    counters,   \* self._counters
    tasks,      \* self._tasks: key -> run registered for it, 0 = no entry
    task,       \* key -> run -> state of the asyncio task running _run_agent
    out,        \* what the call made by the last step returned
    issued,     \* per user, the ids handed out by _next_id, in order
    used,       \* calls made so far that count against MaxStops, MaxDirects
    hist,       \* call history (kept by the scenario specifications only)
    status_message_id, \* key -> AgentProcess.status_message_id
    last_edit,  \* monitor._last_edit: a function from the keys it holds to times
    pending,    \* monitor._pending: key -> activity held back, or absent
    clock,      \* time.monotonic()
    sent,       \* key -> the calls of bot.edit_message_text made for it
    admin,      \* the stop_all_agents or shutdown call in progress
    locked      \* the users whose lock in self._locks is held

mgrVars == <<heap, agents, counters, tasks, task>>
monVars == <<status_message_id, last_edit, pending, clock, sent>>
vars == <<max_concurrent, heap, agents, counters, tasks, task, out, issued, used, hist,
          status_message_id, last_edit, pending, clock, sent, admin, locked>>

\* ------------------------------------------------------------ AgentProcess
NoAgent == [status |-> NULL]

\* AgentProcess as constructed by spawn_agent (manager.py:96-105) with the
\* dataclass defaults (models.py:32-38).
NewAgent(desc) ==
    [status |-> STARTING, session_id |-> NULL, task_description |-> desc,
     completed_at |-> NULL, result_summary |-> NULL, error_message |-> NULL,
     last_activity |-> NULL, cost_usd |-> 0, files_changed |-> <<>>]

\* datetime.now(): the model keeps only whether a timestamp is set.
Now == "set"

\* Faulty variant of is_active: a failed agent still counts as active.
is_active_or_failed(a) == a.status \in {STARTING, RUNNING, FAILED}

is_active(a) == a.status \in {STARTING, RUNNING}

is_terminal(a) == a.status \in {COMPLETED, FAILED, STOPPED}

\* Faulty variant of get_agent: a record that is no longer active is not found.
get_agent_active_only(u, id) ==
    IF <<u, id>> \in agents /\ is_active(heap[<<u, id>>])
    THEN heap[<<u, id>>] ELSE NoAgent

\* self._agents.get(user_id, {}).get(agent_id) (manager.py:58-60)
get_agent(u, id) == IF <<u, id>> \in agents THEN heap[<<u, id>>] ELSE NoAgent

get_active_agents(u) == {k \in agents : k[1] = u /\ is_active(heap[k])}

get_all_agents(u) == {k \in agents : k[1] = u}

\* ------------------------------------------------------------------- tasks
\* pc: where the coroutine is suspended; cb: _on_task_done is still to run;
\* cancelReq: task.cancel() was called and the CancelledError is not yet
\* thrown in; calls: invocations of on_complete by this run; sess: the
\* session_id handed to the executor; waiters: stop_agent calls suspended on
\* the task; after: tasks whose first step is queued (call_soon is first in,
\* first out) before the next thing this task has queued: its own first
\* step while it is new, its done callback once it is done.
TaskFree ==
    [pc |-> "free", cb |-> FALSE, cancelReq |-> FALSE, calls |-> 0,
     sess |-> NULL, waiters |-> 0, after |-> {}]

\* Tasks created and not yet run for the first time.
NewTasks == {x \in TaskIds : task[x[1]][x[2]].pc = "new"}

NewTask == [TaskFree EXCEPT !.pc = "new", !.after = NewTasks]

DonePcs == {"finished", "cancelled", "raised"}

LivePcs == {"new", "exec", "complete", "complete_exc"}

\* task.done()
done(k, i) == task[k][i].pc \in DonePcs

FreeRuns(k) == {i \in Runs : task[k][i].pc = "free"}

NextRun(k) == CHOOSE i \in FreeRuns(k) : \A j \in FreeRuns(k) : i <= j

\* A task object nothing refers to any more (done, callback run, no waiter)
\* is dropped.
Reap(tk) ==
    [k \in Keys |-> [i \in Runs |->
        IF tk[k][i].pc \in DonePcs /\ ~tk[k][i].cb /\ tk[k][i].waiters = 0
        THEN TaskFree ELSE tk[k][i]]]

\* x has run for the first time: callbacks queued behind its first step may run.
Started(tk, x) ==
    [k \in Keys |-> [i \in Runs |-> [tk[k][i] EXCEPT !.after = @ \ {x}]]]

Internal == "-"

\* Minimum interval between message edits, in seconds (monitor.py:16).
MIN_EDIT_INTERVAL == 2

\* time.monotonic() counts from the start of the machine: when the monitor is
\* first used it is past the minimum interval.
ClockStart == MIN_EDIT_INTERVAL

\* No stop_all_agents or shutdown call is in progress.
Idle == [op |-> "idle"]

InitWith(ceilings) ==
    /\ max_concurrent \in ceilings
    /\ heap = [k \in Keys |-> NoAgent]
    /\ agents = {}
    /\ counters = [u \in AllUsers |-> 0]
    /\ tasks = [k \in Keys |-> 0]
    /\ task = [k \in Keys |-> [i \in Runs |-> TaskFree]]
    /\ out = "init"
    /\ issued = [u \in AllUsers |-> <<>>]
    /\ used = [stop |-> 0, direct |-> 0]
    /\ hist = <<>>
    /\ status_message_id = [k \in Keys |-> NULL]
    /\ last_edit = [k \in {} |-> 0]
    /\ pending = [k \in Keys |-> NULL]
    /\ clock = ClockStart
    /\ sent = [k \in Keys |-> <<>>]
    /\ admin = Idle
    /\ locked = {}

Init == InitWith(Ceilings)

\* ------------------------------------------------------------- spawn_agent
\* len(active) (manager.py:87-88)
AgentCount(u) == Cardinality(get_active_agents(u))

\* Faulty variant of the ceiling test: the active agents of every user count.
AtCeilingGlobal(u) ==
    Cardinality({k \in agents : is_active(heap[k])}) >= max_concurrent

\* Faulty variant of the ceiling test: an agent that has not taken its first
\* step is not counted yet.
AtCeilingRunningOnly(u) ==
    Cardinality({k \in agents : k[1] = u /\ heap[k].status = RUNNING}) >= max_concurrent

\* Faulty variant of the ceiling test: admits one agent too many.
AtCeilingStrict(u) == AgentCount(u) > max_concurrent

\* len(active) >= self.max_concurrent (manager.py:88-89)
AtCeiling(u) == AgentCount(u) >= max_concurrent

\* Faulty variants of _next_id: the id after the number of active agents,
\* and the lowest id that no active agent holds.
next_id_by_count(u) == AgentCount(u) + 1

next_id_recycling(u) ==
    CHOOSE id \in 1..(Cardinality(AllIds) + 1) :
        /\ <<u, id>> \notin get_active_agents(u)
        /\ \A j \in 1..(id - 1) : <<u, j>> \in get_active_agents(u)

\* _next_id (manager.py:44-47)
next_id(u) == counters[u] + 1

\* asyncio.create_task(self._run_agent(...)); self._tasks[key] = task;
\* task.add_done_callback(...) (manager.py:118-126, 302-308)
Launch(k) ==
    /\ FreeRuns(k) # {}
    /\ task' = [task EXCEPT ![k][NextRun(k)] = NewTask]
    /\ tasks' = [tasks EXCEPT ![k] = NextRun(k)]

\* Faulty variant of leaving the async with block: the lock stays held.
StillHeld(held, u) == held

\* The lock of user u is taken on entering the async with block
\* (manager.py:39-42, 87, 292) and given back on leaving it, by the raise
\* or past the last statement inside (manager.py:90, 107-115, 300).
Acquired(u) == locked \cup {u}

Released(held, u) == held \ {u}

\* A call that finds the lock held would wait for it; until then it has
\* done nothing.
spawn_agent(u) ==
    /\ u \notin locked
    /\ locked' = Released(Acquired(u), u)
    /\ IF AtCeiling(u)
       THEN /\ out' = "ValueError"
            /\ UNCHANGED <<mgrVars, issued>>
       ELSE LET id == next_id(u)
                k == <<u, id>>
            IN /\ k \in Keys
               /\ counters' = [counters EXCEPT ![u] = id]
               /\ issued' = [issued EXCEPT ![u] = Append(@, id)]
               /\ heap' = [heap EXCEPT ![k] = NewAgent(SpawnTask)]
               /\ agents' = agents \cup {k}
               /\ Launch(k)
               /\ out' = "agent"

\* -------------------------------------------------------------- _run_agent
\* First step of the task: status = RUNNING, the "Starting task..." hook, and
\* the call of the executor with the record's prompt and session_id
\* (manager.py:137-169).  The task is then suspended in run_command; the
\* suspension in the hook is not kept apart from it, a CancelledError thrown
\* in at either place being caught by the same clause (manager.py:195).
RunStart(k, i) ==
    /\ task[k][i].pc = "new"
    /\ task[k][i].after = {}
    /\ ~task[k][i].cancelReq
    /\ heap' = [heap EXCEPT ![k].status = RUNNING]
    /\ task' = Started([task EXCEPT ![k][i].pc = "exec",
                                    ![k][i].sess = heap[k].session_id], <<k, i>>)
    /\ out' = Internal
    /\ UNCHANGED <<agents, counters, tasks, issued>>

\* stream_handler (manager.py:143-160): the executor emits an update.
StreamUpdate(k, i, activity) ==
    /\ task[k][i].pc = "exec"
    /\ ~task[k][i].cancelReq
    /\ heap' = [heap EXCEPT ![k].last_activity = activity]
    /\ out' = Internal
    /\ UNCHANGED <<agents, counters, tasks, task, issued>>

\* Faulty variant of the result update: the error flag is not looked at.
FinishedIgnoringError(a, tok, cost, isError) ==
    [a EXCEPT !.session_id = tok,
              !.cost_usd = cost,
              !.result_summary = Content,
              !.completed_at = Now,
              !.status = COMPLETED]

\* The record after run_command returned (manager.py:171-181).
Finished(a, tok, cost, isError) ==
    [a EXCEPT !.session_id = tok,
              !.cost_usd = cost,
              !.result_summary = Content,
              !.completed_at = Now,
              !.status = IF isError THEN FAILED ELSE COMPLETED,
              !.error_message = IF isError THEN Content ELSE @]

\* run_command returns; the record is updated and on_complete is called
\* (manager.py:171-193).  The task is then suspended in the hook.
ExecReturn(k, i, tok, cost, isError) ==
    /\ task[k][i].pc = "exec"
    /\ ~task[k][i].cancelReq
    /\ heap' = [heap EXCEPT ![k] = Finished(@, tok, cost, isError)]
    /\ task' = [task EXCEPT ![k][i].pc = "complete", ![k][i].calls = @ + 1,
                            ![k][i].sess = NULL]
    /\ out' = Internal
    /\ UNCHANGED <<agents, counters, tasks, issued>>

\* Faulty variant of the failure handler: the error text is not recorded.
ErroredNoMessage(a) == [a EXCEPT !.status = FAILED, !.completed_at = Now]

\* The record after run_command raised (manager.py:205-208).
Errored(a) ==
    [a EXCEPT !.status = FAILED, !.error_message = ExcText, !.completed_at = Now]

\* run_command raises an Exception; on_complete is called from the handler
\* (manager.py:205-216).
ExecRaise(k, i) ==
    /\ task[k][i].pc = "exec"
    /\ ~task[k][i].cancelReq
    /\ heap' = [heap EXCEPT ![k] = Errored(@)]
    /\ task' = [task EXCEPT ![k][i].pc = "complete_exc", ![k][i].calls = @ + 1,
                            ![k][i].sess = NULL]
    /\ out' = Internal
    /\ UNCHANGED <<agents, counters, tasks, issued>>

\* Faulty variant of the cancellation handler: no completion time.
CancelledNoStamp(a) == [a EXCEPT !.status = STOPPED]

\* The record after the run loop caught CancelledError (manager.py:195-197).
Cancelled(a) == [a EXCEPT !.status = STOPPED, !.completed_at = Now]

\* The task ends: its done callbacks are queued behind the first step of
\* every task created before this moment.
EndTask(tk, k, i, how) ==
    [tk EXCEPT ![k][i].pc = how, ![k][i].cb = TRUE, ![k][i].cancelReq = FALSE,
               ![k][i].sess = NULL, ![k][i].after = NewTasks \ {<<k, i>>}]

\* The CancelledError requested by task.cancel() is thrown into the task at
\* its suspension point.
\*   - not started: the coroutine body never runs, the task is cancelled;
\*   - in run_command or in on_complete called from the try block: the
\*     except clause at manager.py:195 marks the record and re-raises;
\*   - in on_complete called from the except clause at manager.py:216: the
\*     error leaves _run_agent.
CancelObserved(k, i) ==
    /\ task[k][i].cancelReq
    /\ task[k][i].pc \in LivePcs
    /\ task[k][i].pc = "new" => task[k][i].after = {}
    /\ heap' = IF task[k][i].pc \in {"exec", "complete"}
               THEN [heap EXCEPT ![k] = Cancelled(@)]
               ELSE heap
    /\ task' = Started(EndTask(task, k, i, "cancelled"), <<k, i>>)
    /\ out' = Internal
    /\ UNCHANGED <<agents, counters, tasks, issued>>

\* The executor catches the CancelledError and goes on (the execution does
\* not observe the cancellation).
CancelIgnored(k, i) ==
    /\ task[k][i].cancelReq
    /\ task[k][i].pc = "exec"
    /\ task' = [task EXCEPT ![k][i].cancelReq = FALSE]
    /\ out' = Internal
    /\ UNCHANGED <<heap, agents, counters, tasks, issued>>

\* on_complete returns and _run_agent with it (manager.py:193, 216).
CompleteReturn(k, i) ==
    /\ task[k][i].pc \in {"complete", "complete_exc"}
    /\ ~task[k][i].cancelReq
    /\ task' = EndTask(task, k, i, "finished")
    /\ out' = Internal
    /\ UNCHANGED <<heap, agents, counters, tasks, issued>>

\* _on_task_done (manager.py:218-230): self._tasks.pop(key, None).
on_task_done(k, i) ==
    /\ done(k, i)
    /\ task[k][i].cb
    /\ task[k][i].after = {}
    /\ tasks' = [tasks EXCEPT ![k] = 0]
    /\ task' = Reap([task EXCEPT ![k][i].cb = FALSE])
    /\ out' = Internal
    /\ UNCHANGED <<heap, agents, counters, issued>>

\* -------------------------------------------------------------- stop_agent
\* Faulty variant of the marking made by stop_agent: no completion time.
MarkStoppedNoStamp(a) == [a EXCEPT !.status = STOPPED]

\* Faulty variant of the marking made by stop_agent: a record whose run has
\* not started is left to its run loop.
MarkStoppedIfRunning(a) ==
    IF a.status = RUNNING THEN [a EXCEPT !.status = STOPPED, !.completed_at = Now]
    ELSE a

\* agent.status = STOPPED; agent.completed_at = now (manager.py:249-250)
MarkStopped(a) == [a EXCEPT !.status = STOPPED, !.completed_at = Now]

\* Faulty variant of the test of stop_agent: only unknown ids are refused.
StopRefusedUnknownOnly(a) == a = NoAgent

\* if not agent or not agent.is_active: return False (manager.py:237-239)
StopRefused(a) == a = NoAgent \/ ~is_active(a)

\* stop_agent up to its suspension in wait_for, or to its end when there is
\* no task to wait for (manager.py:237-257).
stop_agent(u, id) ==
    LET k == <<u, id>>
        a == get_agent(u, id)
        i == tasks[k]
    IN IF StopRefused(a)
       THEN /\ out' = "False"
            /\ UNCHANGED <<mgrVars, issued>>
       ELSE IF i # 0 /\ ~done(k, i)
            THEN /\ task[k][i].waiters < MaxWaiters
                 /\ task' = [task EXCEPT ![k][i].cancelReq = TRUE,
                                         ![k][i].waiters = @ + 1]
                 /\ out' = "await"
                 /\ UNCHANGED <<heap, agents, counters, tasks, issued>>
            ELSE /\ heap' = [heap EXCEPT ![k] = MarkStopped(@)]
                 /\ out' = "True"
                 /\ UNCHANGED <<agents, counters, tasks, task, issued>>

\* wait_for(shield(task), timeout=5.0) resolves: the task is done, or the
\* five seconds have passed (manager.py:244-257).  The first step of a task
\* is queued when the task is created, so it runs before a timer set later
\* expires: the timeout is only seen on a task that has started.  When the
\* task is done its callbacks run in the order they were added, so
\* _on_task_done, added at creation, has run before the waiter wakes up.
stop_resume(k, i) ==
    /\ task[k][i].waiters > 0
    /\ task[k][i].pc # "new"
    /\ task[k][i].pc # "raised"
    /\ done(k, i) => ~task[k][i].cb
    /\ heap' = [heap EXCEPT ![k] = MarkStopped(@)]
    /\ task' = Reap([task EXCEPT ![k][i].waiters = @ - 1])
    /\ out' = IF done(k, i) THEN "True" ELSE "True after timeout"
    /\ UNCHANGED <<agents, counters, tasks, issued>>

\* ------------------------------------------------------------ direct_agent
\* Faulty variant of the reset: the record is made anew and loses its session.
RespawnedFresh(a, message) == NewAgent(message)

\* The reset made under the lock (manager.py:294-300).
Respawned(a, message) ==
    [a EXCEPT !.task_description = message,
              !.status = STARTING,
              !.completed_at = NULL,
              !.result_summary = NULL,
              !.error_message = NULL,
              !.last_activity = NULL]

\* Faulty variant of the test of direct_agent: only unknown ids are refused.
DirectRefusedUnknownOnly(a) == a = NoAgent

\* if not agent: return None; if agent.is_active: return None
\* (manager.py:280-289)
DirectRefused(a) == a = NoAgent \/ is_active(a)

direct_agent(u, id) ==
    LET k == <<u, id>>
        a == get_agent(u, id)
    IN IF DirectRefused(a)
       THEN /\ out' = "None"
            /\ UNCHANGED <<mgrVars, issued, locked>>
       ELSE /\ u \notin locked
            /\ locked' = Released(Acquired(u), u)
            /\ heap' = [heap EXCEPT ![k] = Respawned(@, DirectMessage)]
            /\ Launch(k)
            /\ out' = "agent"
            /\ UNCHANGED <<agents, counters, issued>>

\* --------------------------------------------------------- specification
\* Steps that are not calls of the embedding layer leave its counts alone.
Quiet == UNCHANGED <<max_concurrent, used, hist, monVars, admin, locked>>

\* The calls made by the embedding layer, within the bounds.
SpawnCall(u, I) ==
    /\ AtCeiling(u) \/ next_id(u) \in I
    /\ spawn_agent(u)
    /\ UNCHANGED <<max_concurrent, used, hist, monVars, admin>>

StopCall(u, id) ==
    /\ stop_agent(u, id)
    /\ used' = IF out' = "False" THEN used ELSE [used EXCEPT !.stop = @ + 1]
    /\ used'.stop <= MaxStops
    /\ UNCHANGED <<max_concurrent, hist, monVars, admin, locked>>

DirectCall(u, id) ==
    /\ direct_agent(u, id)
    /\ used' = IF out' = "None" THEN used ELSE [used EXCEPT !.direct = @ + 1]
    /\ used'.direct <= MaxDirects
    /\ UNCHANGED <<max_concurrent, hist, monVars, admin>>

\* One step of the program when the callers are the users U and the ids in
\* use are I.
Step(U, I) ==
    \/ \E u \in U : SpawnCall(u, I)
    \/ \E u \in U, id \in I : StopCall(u, id)
    \/ \E u \in U, id \in I : DirectCall(u, id)
    \/ \E k \in U \X I, i \in Runs : RunStart(k, i) /\ Quiet
    \/ \E k \in U \X I, i \in Runs, a \in Activities : StreamUpdate(k, i, a) /\ Quiet
    \/ \E k \in U \X I, i \in Runs, tok \in Tokens, c \in Costs, e \in BOOLEAN :
          ExecReturn(k, i, tok, c, e) /\ Quiet
    \/ \E k \in U \X I, i \in Runs : ExecRaise(k, i) /\ Quiet
    \/ \E k \in U \X I, i \in Runs : CancelObserved(k, i) /\ Quiet
    \/ \E k \in U \X I, i \in Runs : CancelIgnored(k, i) /\ Quiet
    \/ \E k \in U \X I, i \in Runs : CompleteReturn(k, i) /\ Quiet
    \/ \E k \in U \X I, i \in Runs : on_task_done(k, i) /\ Quiet
    \/ \E k \in U \X I, i \in Runs : stop_resume(k, i) /\ Quiet

\* The main specification: one user, ids up to MaxId, any configured ceiling.
MainUsers == {1}
MainIds == 1..MaxId
MainKeys == MainUsers \X MainIds

Next == Step(MainUsers, MainIds)

Spec == Init /\ [][Next]_vars

\* The event loop keeps running what is ready: the first step of a task, a
\* cancellation to deliver, a done callback, a stop_agent whose wait is over
\* (the task is done or the 5 s timer has fired).  Nothing makes the executor
\* return or a caller call.
Scheduled ==
    \E k \in Keys, i \in Runs :
        /\ \/ RunStart(k, i)
           \/ CancelObserved(k, i)
           \/ CancelIgnored(k, i)
           \/ on_task_done(k, i)
           \/ stop_resume(k, i)
        /\ Quiet

\* One agent and its respawns, under a scheduler that keeps running.
NextSingle == Step(MainUsers, {1})

SpecFair == Init /\ [][NextSingle]_vars /\ WF_vars(Scheduled)

\* The executor and the hooks always come back: run_command returns or
\* raises, on_complete returns.
ExecutorEnds(k, i) ==
    /\ \/ \E tok \in Tokens, c \in Costs, e \in BOOLEAN : ExecReturn(k, i, tok, c, e)
       \/ ExecRaise(k, i)
       \/ CompleteReturn(k, i)
    /\ Quiet

\* One agent and its respawns, under a scheduler that keeps running and an
\* executor and hooks that always come back.
SpecLive ==
    /\ Init /\ [][NextSingle]_vars
    /\ WF_vars(Scheduled)
    /\ \A k \in MainUsers \X {1} : \A i \in Runs : WF_vars(ExecutorEnds(k, i))

\* One agent that is respawned again: direct_agent calls beyond the MaxDirects
\* of the main specification, up to MaxRespawns in all.
MaxRespawns == 2

RespawnCall(u, id) ==
    /\ used.direct >= MaxDirects
    /\ direct_agent(u, id)
    /\ used' = IF out' = "None" THEN used ELSE [used EXCEPT !.direct = @ + 1]
    /\ used'.direct <= MaxRespawns
    /\ UNCHANGED <<max_concurrent, hist, monVars, admin>>

RespawnNext ==
    \/ NextSingle
    \/ \E u \in MainUsers : RespawnCall(u, 1)

SpecRespawns == Init /\ [][RespawnNext]_vars

\* --------------------------------------------------- the ceiling scenario
\* One user, a ceiling of 2 and long-running executions (the executor streams
\* updates and does not return while the scenario lasts): the calls Spawn,
\* Spawn, Spawn, Stop(1), Spawn are made one after the other, each when the
\* one before it has returned, while the run loops take their steps.
Script == <<"spawn", "spawn", "spawn", "stop", "spawn">>

ScenarioUser == 1

\* What a call leaves in the history when it returns: what it returned, the
\* id it is about and the size of get_active_agents at that moment.
Event(op, id) ==
    [op |-> op, id |-> id, ret |-> out',
     active |-> Cardinality(get_active_agents(ScenarioUser))']

ScenarioCall ==
    /\ Len(hist) < Len(Script)
    /\ \A x \in TaskIds : task[x[1]][x[2]].waiters = 0
    /\ IF Script[Len(hist) + 1] = "spawn"
       THEN /\ spawn_agent(ScenarioUser)
            /\ hist' = Append(hist, Event("spawn",
                         IF out' = "agent" THEN counters'[ScenarioUser] ELSE 0))
       ELSE /\ stop_agent(ScenarioUser, 1)
            /\ hist' = IF out' = "await" THEN hist ELSE Append(hist, Event("stop", 1))
            /\ UNCHANGED locked
    /\ UNCHANGED <<max_concurrent, used, monVars, admin>>

ScenarioStopReturns(k, i) ==
    /\ stop_resume(k, i)
    /\ hist' = Append(hist, Event("stop", k[2]))
    /\ UNCHANGED <<max_concurrent, used, monVars, admin, locked>>

ScenarioNext ==
    \/ ScenarioCall
    \/ \E k \in Keys, i \in Runs : ScenarioStopReturns(k, i)
    \/ \E k \in Keys, i \in Runs : RunStart(k, i) /\ Quiet
    \/ \E k \in Keys, i \in Runs, a \in Activities : StreamUpdate(k, i, a) /\ Quiet
    \/ \E k \in Keys, i \in Runs : CancelObserved(k, i) /\ Quiet
    \/ \E k \in Keys, i \in Runs : CancelIgnored(k, i) /\ Quiet
    \/ \E k \in Keys, i \in Runs : on_task_done(k, i) /\ Quiet

SpecScenario == InitWith({2}) /\ [][ScenarioNext]_vars

\* ------------------------------------------------- AgentProgressMonitor
\* update.content as its lines: two different texts, to tell an update from
\* the next, and a line of white space.  The content is not empty
\* (manager.py:145).
Blank == " "

MaxLines == 2

Contents ==
    UNION {[1..n -> Activities \cup {"a2", Blank}] : n \in 1..MaxLines}

RECURSIVE strip(_)
\* content.strip(), seen from the end: the white space at the end is removed.
strip(content) ==
    IF content = <<>> THEN <<>>
    ELSE IF content[Len(content)] = Blank
         THEN strip(SubSeq(content, 1, Len(content) - 1))
         ELSE content

\* lines = update.content.strip().split("\n"); activity = lines[-1][:100]
\* (manager.py:147-148).  Splitting the empty string gives one empty line.
activity_of(content) ==
    LET lines == strip(content)
    IN IF lines = <<>> THEN "" ELSE lines[Len(lines)]

\* Activities passed to the monitor.
MonActivities == {activity_of(c) : c \in Contents}

\* The processes the monitor specification follows.
MonKeys == {<<1, 1>>}

\* Largest value of the clock, and most monitor calls, in one behaviour.
MaxClock == 5
MaxCalls == 4

\* self._last_edit.get(key, 0) (monitor.py:62)
LastEdit(k) == IF k \in DOMAIN last_edit THEN last_edit[k] ELSE 0

\* d[k] = v on a dictionary
Put(d, k, v) == [x \in DOMAIN d \cup {k} |-> IF x = k THEN v ELSE d[x]]

\* One call of bot.edit_message_text (monitor.py:201-207).
Edit(by, text) == [by |-> by, text |-> text, at |-> clock]

\* create_status_message (monitor.py:29-50): the message id is kept when the
\* send succeeds.
create_status_message(k, ok) ==
    /\ status_message_id' =
          IF ok THEN [status_message_id EXCEPT ![k] = "msg"] ELSE status_message_id
    /\ UNCHANGED <<last_edit, pending, sent>>

\* Faulty variant of update_status: a value stored earlier stays pending when
\* an activity is sent at once.
update_status_keeping_pending(k, activity) ==
    /\ IF status_message_id[k] = NULL
       THEN UNCHANGED <<last_edit, pending, sent>>
       ELSE IF clock - LastEdit(k) < MIN_EDIT_INTERVAL
            THEN /\ pending' = [pending EXCEPT ![k] = activity]
                 /\ UNCHANGED <<last_edit, sent>>
            ELSE /\ UNCHANGED pending
                 /\ last_edit' = Put(last_edit, k, clock)
                 /\ sent' = [sent EXCEPT ![k] = Append(@, Edit("update_status", activity))]
    /\ UNCHANGED status_message_id

\* Faulty variant of update_status: a value already pending is not replaced.
update_status_first_wins(k, activity) ==
    /\ IF status_message_id[k] = NULL
       THEN UNCHANGED <<last_edit, pending, sent>>
       ELSE IF clock - LastEdit(k) < MIN_EDIT_INTERVAL
            THEN /\ pending' = [pending EXCEPT ![k] = IF @ = NULL THEN activity ELSE @]
                 /\ UNCHANGED <<last_edit, sent>>
            ELSE /\ pending' = [pending EXCEPT ![k] = NULL]
                 /\ last_edit' = Put(last_edit, k, clock)
                 /\ sent' = [sent EXCEPT ![k] = Append(@, Edit("update_status", activity))]
    /\ UNCHANGED status_message_id

\* update_status (monitor.py:52-74)
update_status(k, activity) ==
    /\ IF status_message_id[k] = NULL
       THEN UNCHANGED <<last_edit, pending, sent>>
       ELSE IF clock - LastEdit(k) < MIN_EDIT_INTERVAL
            THEN /\ pending' = [pending EXCEPT ![k] = activity]
                 /\ UNCHANGED <<last_edit, sent>>
            ELSE /\ pending' = [pending EXCEPT ![k] = NULL]
                 /\ last_edit' = Put(last_edit, k, clock)
                 /\ sent' = [sent EXCEPT ![k] = Append(@, Edit("update_status", activity))]
    /\ UNCHANGED status_message_id

\* Faulty variant of flush_pending: the time of the send is not recorded.
flush_pending_no_stamp(k) ==
    /\ pending' = [pending EXCEPT ![k] = NULL]
    /\ IF pending[k] \notin {NULL, ""}
       THEN /\ UNCHANGED last_edit
            /\ sent' = [sent EXCEPT ![k] = Append(@, Edit("flush_pending", pending[k]))]
       ELSE UNCHANGED <<last_edit, sent>>
    /\ UNCHANGED status_message_id

\* flush_pending (monitor.py:89-96)
flush_pending(k) ==
    /\ pending' = [pending EXCEPT ![k] = NULL]
    /\ IF pending[k] \notin {NULL, ""}
       THEN /\ last_edit' = Put(last_edit, k, clock)
            /\ sent' = [sent EXCEPT ![k] = Append(@, Edit("flush_pending", pending[k]))]
       ELSE UNCHANGED <<last_edit, sent>>
    /\ UNCHANGED status_message_id

\* show_completion (monitor.py:76-87)
show_completion(k) ==
    /\ IF status_message_id[k] = NULL
       THEN UNCHANGED <<pending, sent>>
       ELSE /\ pending' = [pending EXCEPT ![k] = NULL]
            /\ sent' = [sent EXCEPT ![k] = Append(@, Edit("show_completion", "completion"))]
    /\ UNCHANGED <<status_message_id, last_edit>>

\* What a call of the monitor leaves in the history: its argument, the time
\* and the number of edits it made.
MonEvent(k, op, text) ==
    [op |-> op, key |-> k, text |-> text, at |-> clock,
     sends |-> Len(sent'[k]) - Len(sent[k])]

\* The monitor called from outside, the history kept.
MonFrame == UNCHANGED <<max_concurrent, mgrVars, out, issued, used, admin, locked>>

MonCreate(k, ok) ==
    /\ status_message_id[k] = NULL
    /\ create_status_message(k, ok)
    /\ UNCHANGED <<clock, hist>>
    /\ MonFrame

MonUpdate(k, activity) ==
    /\ Len(hist) < MaxCalls
    /\ update_status(k, activity)
    /\ hist' = Append(hist, MonEvent(k, "update_status", activity))
    /\ UNCHANGED clock
    /\ MonFrame

MonFlush(k) ==
    /\ Len(hist) < MaxCalls
    /\ flush_pending(k)
    /\ hist' = Append(hist, MonEvent(k, "flush_pending", ""))
    /\ UNCHANGED clock
    /\ MonFrame

MonShow(k) ==
    /\ Len(hist) < MaxCalls
    /\ show_completion(k)
    /\ hist' = Append(hist, MonEvent(k, "show_completion", ""))
    /\ UNCHANGED clock
    /\ MonFrame

\* Time passes.
Tick ==
    /\ clock < MaxClock
    /\ clock' = clock + 1
    /\ UNCHANGED <<status_message_id, last_edit, pending, sent, hist>>
    /\ MonFrame

MonitorNext ==
    \/ \E k \in MonKeys, ok \in BOOLEAN : MonCreate(k, ok)
    \/ \E k \in MonKeys, a \in MonActivities : MonUpdate(k, a)
    \/ \E k \in MonKeys : MonFlush(k)
    \/ \E k \in MonKeys : MonShow(k)
    \/ Tick

SpecMonitor == InitWith({2}) /\ [][MonitorNext]_vars

\* ------------------------------------- stop_all_agents, shutdown, stats
RECURSIVE Ascending(_)
\* The elements of a set of numbers as a list, smallest first: the order in
\* which a dict filled in that order is iterated.
Ascending(S) ==
    IF S = {} THEN <<>>
    ELSE LET m == CHOOSE x \in S : \A y \in S : x <= y
         IN <<m>> \o Ascending(S \ {m})

\* self.get_active_agents(user_id) as a list of ids (manager.py:261)
ActiveList(u) == Ascending({k[2] : k \in get_active_agents(u)})

\* list(self._agents.keys()) (manager.py:335)
UserList == Ascending({k[1] : k \in agents})

\* A stop_all_agents or shutdown call runs on, without suspending, until a
\* stop_agent it made waits for a task: nothing else runs meanwhile.
AdminBusy == admin.op # "idle" /\ admin.waiting = 0

\* No call is running; last is the call that returned most recently and what
\* it returned.
Returns(op, u, ret) == [op |-> "idle", last |-> [op |-> op, user |-> u, ret |-> ret]]

AdminFrame == UNCHANGED <<max_concurrent, used, hist, monVars, locked>>

\* stop_all_agents is called: active = self.get_active_agents(user_id);
\* count = 0 (manager.py:261-262)
StopAllBegin(u) ==
    /\ admin.op = "idle"
    /\ admin' = [op |-> "stop_all", user |-> u, users |-> <<>>,
                 todo |-> ActiveList(u), snap |-> get_active_agents(u),
                 count |-> 0, cur |-> 0, waiting |-> 0]
    /\ UNCHANGED <<mgrVars, out, issued>>
    /\ AdminFrame

\* The next round of the loop: await self.stop_agent(user_id, agent.agent_id),
\* up to its return or its suspension (manager.py:263-265).
AdminStop ==
    /\ AdminBusy
    /\ admin.todo # <<>>
    /\ LET id == Head(admin.todo)
       IN /\ stop_agent(admin.user, id)
          /\ admin' = [admin EXCEPT
                          !.todo = Tail(@),
                          !.cur = id,
                          !.count = IF out' = "True" THEN @ + 1 ELSE @,
                          !.waiting = IF out' = "await" THEN tasks[<<admin.user, id>>] ELSE 0]
    /\ AdminFrame

\* The stop_agent the call waits in resumes and returns True.
AdminResume ==
    /\ admin.op # "idle"
    /\ admin.waiting # 0
    /\ stop_resume(<<admin.user, admin.cur>>, admin.waiting)
    /\ admin' = [admin EXCEPT !.count = @ + 1, !.waiting = 0]
    /\ AdminFrame

\* return count (manager.py:266)
StopAllReturn ==
    /\ AdminBusy
    /\ admin.op = "stop_all"
    /\ admin.todo = <<>>
    /\ admin' = Returns("stop_all", admin.user, admin.count)
    /\ out' = "count"
    /\ UNCHANGED <<mgrVars, issued>>
    /\ AdminFrame

\* shutdown is called: for user_id in list(self._agents.keys())
\* (manager.py:334-335)
ShutdownBegin ==
    /\ admin.op = "idle"
    /\ admin' = [op |-> "shutdown", user |-> 0, users |-> UserList,
                 todo |-> <<>>, snap |-> agents,
                 count |-> 0, cur |-> 0, waiting |-> 0]
    /\ UNCHANGED <<mgrVars, out, issued>>
    /\ AdminFrame

\* await self.stop_all_agents(user_id) for the next user (manager.py:336)
ShutdownNextUser ==
    /\ AdminBusy
    /\ admin.op = "shutdown"
    /\ admin.todo = <<>>
    /\ admin.users # <<>>
    /\ admin' = [admin EXCEPT !.user = Head(admin.users),
                              !.users = Tail(@),
                              !.todo = ActiveList(Head(admin.users)),
                              !.count = 0]
    /\ UNCHANGED <<mgrVars, out, issued>>
    /\ AdminFrame

\* Faulty variant of the clearing: the task table is left as it is.
TasksNotCleared == tasks

\* self._tasks.clear() (manager.py:338)
ClearedTasks == [k \in Keys |-> 0]

\* self._agents.clear(); self._tasks.clear() (manager.py:337-338)
ShutdownReturn ==
    /\ AdminBusy
    /\ admin.op = "shutdown"
    /\ admin.todo = <<>>
    /\ admin.users = <<>>
    /\ agents' = {}
    /\ tasks' = ClearedTasks
    /\ admin' = Returns("shutdown", 0, "None")
    /\ out' = "None"
    /\ UNCHANGED <<heap, counters, task, issued>>
    /\ AdminFrame

RECURSIVE Sum(_, _)
\* sum(f[x] for x in S)
Sum(f, S) ==
    IF S = {} THEN 0
    ELSE LET x == CHOOSE y \in S : TRUE IN f[x] + Sum(f, S \ {x})

\* Faulty variant of get_user_stats: a Starting record is not counted active.
get_user_stats_running_only(u) ==
    LET all == get_all_agents(u)
    IN [total_agents |-> Cardinality(all),
        active |-> Cardinality({k \in all : heap[k].status = RUNNING}),
        completed |-> Cardinality({k \in all : heap[k].status = COMPLETED}),
        failed |-> Cardinality({k \in all : heap[k].status = FAILED}),
        total_cost |-> Sum([k \in all |-> heap[k].cost_usd], all)]

\* get_user_stats (manager.py:312-330)
get_user_stats(u) ==
    LET all == get_all_agents(u)
    IN IF all = {}
       THEN [total_agents |-> 0, active |-> 0, completed |-> 0, failed |-> 0,
             total_cost |-> 0]
       ELSE [total_agents |-> Cardinality(all),
             active |-> Cardinality({k \in all : is_active(heap[k])}),
             completed |-> Cardinality({k \in all : heap[k].status = COMPLETED}),
             failed |-> Cardinality({k \in all : heap[k].status = FAILED}),
             total_cost |-> Sum([k \in all |-> heap[k].cost_usd], all)]

StatsCall(u) ==
    /\ admin.op = "idle"
    /\ admin' = Returns("stats", u, get_user_stats(u))
    /\ out' = "stats"
    /\ UNCHANGED <<mgrVars, issued>>
    /\ AdminFrame

\* A step of the rest of the program, taken while no stop_all_agents or
\* shutdown call is running on.
Meanwhile == ~AdminBusy /\ UNCHANGED <<max_concurrent, used, hist, monVars, admin, locked>>

AdminNext ==
    \/ \E u \in MainUsers : StopAllBegin(u)
    \/ AdminStop
    \/ AdminResume
    \/ StopAllReturn
    \/ ShutdownBegin
    \/ ShutdownNextUser
    \/ ShutdownReturn
    \/ \E u \in MainUsers : ~AdminBusy /\ SpawnCall(u, MainIds)
    \/ \E u \in MainUsers, id \in MainIds : admin.op = "idle" /\ DirectCall(u, id)
    \/ \E k \in MainKeys, i \in Runs : RunStart(k, i) /\ Meanwhile
    \/ \E k \in MainKeys, i \in Runs, tok \in Tokens, c \in Costs, e \in BOOLEAN :
          ExecReturn(k, i, tok, c, e) /\ Meanwhile
    \/ \E k \in MainKeys, i \in Runs : ExecRaise(k, i) /\ Meanwhile
    \/ \E k \in MainKeys, i \in Runs : CancelObserved(k, i) /\ Meanwhile
    \/ \E k \in MainKeys, i \in Runs : CancelIgnored(k, i) /\ Meanwhile
    \/ \E k \in MainKeys, i \in Runs : CompleteReturn(k, i) /\ Meanwhile
    \/ \E k \in MainKeys, i \in Runs : on_task_done(k, i) /\ Meanwhile

\* No direct_agent call is made while a stop_all_agents or shutdown call is
\* under way.
SpecAdmin == InitWith({2}) /\ [][AdminNext]_vars

\* spawn_agent, stop_agent and get_user_stats calls, and the runs they start.
StatsNext ==
    \/ \E u \in AllUsers : StatsCall(u)
    \/ \E u \in MainUsers : SpawnCall(u, MainIds)
    \/ \E u \in MainUsers, id \in MainIds : StopCall(u, id)
    \/ \E k \in MainKeys, i \in Runs : RunStart(k, i) /\ Quiet
    \/ \E k \in MainKeys, i \in Runs, tok \in Tokens, c \in Costs, e \in BOOLEAN :
          ExecReturn(k, i, tok, c, e) /\ Quiet
    \/ \E k \in MainKeys, i \in Runs : ExecRaise(k, i) /\ Quiet
    \/ \E k \in MainKeys, i \in Runs : CancelObserved(k, i) /\ Quiet
    \/ \E k \in MainKeys, i \in Runs : CancelIgnored(k, i) /\ Quiet
    \/ \E k \in MainKeys, i \in Runs : CompleteReturn(k, i) /\ Quiet
    \/ \E k \in MainKeys, i \in Runs : on_task_done(k, i) /\ Quiet
    \/ \E k \in MainKeys, i \in Runs : stop_resume(k, i) /\ Quiet

SpecStats == InitWith({2}) /\ [][StatsNext]_vars

\* ------------------------------------------------------------ two tenants
\* Two users, one id each, a ceiling of one agent per user: spawn_agent is
\* called by either user, stop_agent, direct_agent and stop_all_agents by
\* the first; the executor answers every call without an error.
TenantA == 1
TenantB == 2
TenantIds == {1}
TenantKeys == AllUsers \X TenantIds

\* The stop_all_agents call under way waits in stop_agent for run i of k.
AdminWaitsFor(k, i) ==
    admin.op # "idle" /\ admin.waiting = i /\ <<admin.user, admin.cur>> = k

\* spawn_agent called by user u; the history keeps this one call.
TenantSpawn(u) ==
    /\ AtCeiling(u) \/ next_id(u) \in TenantIds
    /\ spawn_agent(u)
    /\ hist' = <<[op |-> "spawn", user |-> u, ret |-> out']>>
    /\ UNCHANGED <<max_concurrent, used, monVars, admin>>

TenantsNext ==
    \/ \E u \in AllUsers : ~AdminBusy /\ TenantSpawn(u)
    \/ \E u \in {TenantA}, id \in TenantIds : ~AdminBusy /\ StopCall(u, id)
    \/ \E u \in {TenantA}, id \in TenantIds : ~AdminBusy /\ DirectCall(u, id)
    \/ \E u \in {TenantA} : StopAllBegin(u)
    \/ AdminStop
    \/ AdminResume
    \/ StopAllReturn
    \/ \E k \in TenantKeys, i \in Runs : RunStart(k, i) /\ Meanwhile
    \/ \E k \in TenantKeys, i \in Runs, tok \in Tokens, c \in Costs, e \in {FALSE} :
          ExecReturn(k, i, tok, c, e) /\ Meanwhile
    \/ \E k \in TenantKeys, i \in Runs : CancelObserved(k, i) /\ Meanwhile
    \/ \E k \in TenantKeys, i \in Runs : CancelIgnored(k, i) /\ Meanwhile
    \/ \E k \in TenantKeys, i \in Runs : CompleteReturn(k, i) /\ Meanwhile
    \/ \E k \in TenantKeys, i \in Runs : on_task_done(k, i) /\ Meanwhile
    \/ \E k \in TenantKeys, i \in Runs :
          ~AdminWaitsFor(k, i) /\ stop_resume(k, i) /\ Meanwhile

SpecTenants == InitWith({1}) /\ [][TenantsNext]_vars

\* --------------------------------------------------- without direct_agent
\* spawn_agent and stop_agent calls and the runs they start; direct_agent is
\* never called.  Two spawn_agent calls made at the same time are two steps
\* of the event loop, one after the other, anything that is ready running
\* between them: between its test of the ceiling and the insertion of its
\* record a call never suspends (manager.py:87-107).
NoDirectNext ==
    \/ \E u \in MainUsers : SpawnCall(u, MainIds)
    \/ \E u \in MainUsers, id \in MainIds : StopCall(u, id)
    \/ \E k \in MainKeys, i \in Runs : RunStart(k, i) /\ Quiet
    \/ \E k \in MainKeys, i \in Runs, tok \in Tokens, c \in Costs, e \in BOOLEAN :
          ExecReturn(k, i, tok, c, e) /\ Quiet
    \/ \E k \in MainKeys, i \in Runs : ExecRaise(k, i) /\ Quiet
    \/ \E k \in MainKeys, i \in Runs : CancelObserved(k, i) /\ Quiet
    \/ \E k \in MainKeys, i \in Runs : CancelIgnored(k, i) /\ Quiet
    \/ \E k \in MainKeys, i \in Runs : CompleteReturn(k, i) /\ Quiet
    \/ \E k \in MainKeys, i \in Runs : on_task_done(k, i) /\ Quiet
    \/ \E k \in MainKeys, i \in Runs : stop_resume(k, i) /\ Quiet

SpecNoDirect == Init /\ [][NoDirectNext]_vars

\* ------------------------------------------- the run loop with its hooks
\* The run loop called as run_command calls it (agent_commands.py:55-76):
\* on_status_update is update_status, on_complete is flush_pending followed
\* by show_completion, and create_status_message is awaited when spawn_agent
\* has returned.  One agent, no respawn.
HookKeys == {<<1, 1>>}

\* Most updates the executor streams in one behaviour.
MaxStream == 2

\* The activity of the first hook call (manager.py:141).
StartingText == "Starting task..."

HookFrame == UNCHANGED <<max_concurrent, used, admin, locked, clock>>

\* spawn_agent (agent_commands.py:65-72).
HookedSpawn(u) ==
    /\ agents = {}
    /\ spawn_agent(u)
    /\ UNCHANGED <<monVars, hist>>
    /\ UNCHANGED <<max_concurrent, used, admin>>

\* create_status_message (agent_commands.py:75-76) resolves.  Its send is
\* awaited right after spawn_agent returned, and the first step of the task,
\* queued before, runs during that wait.
HookedCreate(k, ok) ==
    /\ heap[k] # NoAgent
    /\ \A i \in Runs : task[k][i].pc # "new"
    /\ status_message_id[k] = NULL
    /\ create_status_message(k, ok)
    /\ UNCHANGED <<mgrVars, out, issued, hist>>
    /\ HookFrame

\* manager.py:138-141
HookedRunStart(k, i) ==
    /\ RunStart(k, i)
    /\ update_status(k, StartingText)
    /\ UNCHANGED hist
    /\ HookFrame

\* stream_handler (manager.py:143-160) awaits on_status_update.
HookedStream(k, i, activity) ==
    /\ Len(hist) < MaxStream
    /\ StreamUpdate(k, i, activity)
    /\ update_status(k, activity)
    /\ hist' = Append(hist, MonEvent(k, "update_status", activity))
    /\ HookFrame

\* on_complete (agent_commands.py:59-62) up to its first suspension, which is
\* the edit made by flush_pending when there is something to send, the edit
\* made by show_completion otherwise.
on_complete_begin(k) ==
    IF pending[k] \notin {NULL, ""}
    THEN /\ flush_pending(k)
         /\ hist' = Append(hist, MonEvent(k, "flush_pending", ""))
    ELSE /\ show_completion(k)
         /\ hist' = Append(hist, MonEvent(k, "show_completion", ""))

\* The hook is suspended in the edit of flush_pending.
InFlush == hist # <<>> /\ hist[Len(hist)].op = "flush_pending"

\* The rest of on_complete (agent_commands.py:62).
on_complete_end(k) ==
    IF InFlush
    THEN /\ show_completion(k)
         /\ hist' = Append(hist, MonEvent(k, "show_completion", ""))
    ELSE UNCHANGED <<monVars, hist>>

HookedExecReturn(k, i, tok, cost, isError) ==
    /\ ExecReturn(k, i, tok, cost, isError)
    /\ on_complete_begin(k)
    /\ HookFrame

HookedExecRaise(k, i) ==
    /\ ExecRaise(k, i)
    /\ on_complete_begin(k)
    /\ HookFrame

HookedCompleteReturn(k, i) ==
    /\ CompleteReturn(k, i)
    /\ on_complete_end(k)
    /\ HookFrame

\* stop_command (agent_commands.py:142-177) calls stop_agent and replies; it
\* does not call the monitor, and neither does the clause that catches the
\* CancelledError (manager.py:195-203).
HookedNext ==
    \/ \E u \in MainUsers : HookedSpawn(u)
    \/ \E k \in HookKeys, ok \in BOOLEAN : HookedCreate(k, ok)
    \/ \E k \in HookKeys, i \in Runs : HookedRunStart(k, i)
    \/ \E k \in HookKeys, i \in Runs, a \in MonActivities : HookedStream(k, i, a)
    \/ \E k \in HookKeys, i \in Runs, tok \in Tokens, c \in Costs, e \in BOOLEAN :
          HookedExecReturn(k, i, tok, c, e)
    \/ \E k \in HookKeys, i \in Runs : HookedExecRaise(k, i)
    \/ \E k \in HookKeys, i \in Runs : HookedCompleteReturn(k, i)
    \/ \E k \in HookKeys : StopCall(k[1], k[2])
    \/ \E k \in HookKeys, i \in Runs : CancelObserved(k, i) /\ Quiet
    \/ \E k \in HookKeys, i \in Runs : CancelIgnored(k, i) /\ Quiet
    \/ \E k \in HookKeys, i \in Runs : on_task_done(k, i) /\ Quiet
    \/ \E k \in HookKeys, i \in Runs : stop_resume(k, i) /\ Quiet
    \/ Tick

SpecHooked == InitWith({2}) /\ [][HookedNext]_vars

\* ------------------------------------------------------- hooks that raise
\* The first step of the task when on_status_update(agent, "Starting
\* task...") raises an Exception: it is caught at manager.py:205, the record
\* is marked and on_complete is called (manager.py:138-141, 205-216).
StartHookRaises(k, i) ==
    /\ task[k][i].pc = "new"
    /\ task[k][i].after = {}
    /\ ~task[k][i].cancelReq
    /\ heap' = [heap EXCEPT ![k] = Errored([@ EXCEPT !.status = RUNNING])]
    /\ task' = Started([task EXCEPT ![k][i].pc = "complete_exc",
                                    ![k][i].calls = @ + 1], <<k, i>>)
    /\ out' = Internal
    /\ UNCHANGED <<agents, counters, tasks, issued>>

\* on_complete, called at manager.py:193 inside the try block, raises an
\* Exception: the clause at manager.py:205 catches it, marks the record and
\* calls on_complete (manager.py:216).
CompleteRaises(k, i) ==
    /\ task[k][i].pc = "complete"
    /\ ~task[k][i].cancelReq
    /\ heap' = [heap EXCEPT ![k] = Errored(@)]
    /\ task' = [task EXCEPT ![k][i].pc = "complete_exc", ![k][i].calls = @ + 1]
    /\ out' = Internal
    /\ UNCHANGED <<agents, counters, tasks, issued>>

\* on_complete, called at manager.py:216 from the except clause, raises: the
\* Exception leaves _run_agent and the task is done.
HandlerHookRaises(k, i) ==
    /\ task[k][i].pc = "complete_exc"
    /\ ~task[k][i].cancelReq
    /\ task' = EndTask(task, k, i, "raised")
    /\ out' = Internal
    /\ UNCHANGED <<heap, agents, counters, tasks, issued>>

\* wait_for(shield(task)) in stop_agent re-raises the Exception of a task that
\* ended by one: only CancelledError and TimeoutError are caught
\* (manager.py:244-247), so stop_agent ends there, the record not marked.
stop_raises(k, i) ==
    /\ task[k][i].waiters > 0
    /\ task[k][i].pc = "raised"
    /\ ~task[k][i].cb
    /\ task' = Reap([task EXCEPT ![k][i].waiters = @ - 1])
    /\ out' = "Exception"
    /\ UNCHANGED <<heap, agents, counters, tasks, issued>>

\* One agent and its respawns, with hooks that may raise.
RaisingNext ==
    \/ NextSingle
    \/ \E k \in MainUsers \X {1}, i \in Runs : StartHookRaises(k, i) /\ Quiet
    \/ \E k \in MainUsers \X {1}, i \in Runs : CompleteRaises(k, i) /\ Quiet
    \/ \E k \in MainUsers \X {1}, i \in Runs : HandlerHookRaises(k, i) /\ Quiet
    \/ \E k \in MainUsers \X {1}, i \in Runs : stop_raises(k, i) /\ Quiet

SpecRaising == Init /\ [][RaisingNext]_vars

\* ------------------------------------------------------------------ claims

\* C1: in every reachable state the number of records of a user whose status
\* is Starting or Running is at most the configured ceiling.
\* direct_agent has no ceiling test: it is violated by a respawn made while
\* the user is at the ceiling.
C1_CeilingRespected ==
    \A u \in AllUsers : AgentCount(u) <= max_concurrent

\* C2: a spawn_agent called while the user's active count equals the ceiling
\* raises ValueError and changes nothing: no record, no id taken, no task
\* created, no entry in the task table.
C2_DeniedSpawnChangesNothing ==
    [][\A u \in AllUsers :
          (AgentCount(u) = max_concurrent /\ spawn_agent(u))
              => /\ out' = "ValueError"
                 /\ heap' = heap /\ agents' = agents /\ counters' = counters
                 /\ tasks' = tasks /\ task' = task /\ issued' = issued]_vars

\* A spawn was just denied at a ceiling of 2, after both ids were handed out.
C2_Witness ==
    /\ out = "ValueError"
    /\ max_concurrent = 2
    /\ \E u \in MainUsers : AgentCount(u) = 2 /\ counters[u] = 2

\* C3: the ids handed out to a user by admitted spawns are 1, 2, 3, ... in
\* order, without gap or repeat, whatever stops, completions, denied spawns
\* and respawns come between; the records of a user are those ids, one each.
C3_IdsDenseAscending ==
    \A u \in AllUsers :
        /\ issued[u] = [n \in 1..Len(issued[u]) |-> n]
        /\ counters[u] = Len(issued[u])
        /\ \A id \in AllIds : <<u, id>> \in agents <=> id <= Len(issued[u])
        /\ \A id \in AllIds : heap[<<u, id>>] # NoAgent <=> <<u, id>> \in agents

\* Both ids were handed out with a stop and a respawn made in between or after.
C3_Witness ==
    /\ issued[1] = <<1, 2>>
    /\ used.stop >= 1
    /\ used.direct >= 1
    /\ \E k \in MainKeys : ~is_active(heap[k])

\* C4 (as the code behaves): with a ceiling of 2 and one user, two spawns are
\* admitted with ids 1 and 2, the third is denied with ValueError, the stop
\* of agent 1 returns True and leaves one active agent, and the fourth spawn
\* call is admitted and its record gets agent_id 3: the denied call took no id.
C4_Scenario ==
    /\ Len(hist) >= 1 =>
          hist[1] = [op |-> "spawn", id |-> 1, ret |-> "agent", active |-> 1]
    /\ Len(hist) >= 2 =>
          hist[2] = [op |-> "spawn", id |-> 2, ret |-> "agent", active |-> 2]
    /\ Len(hist) >= 3 =>
          hist[3] = [op |-> "spawn", id |-> 0, ret |-> "ValueError", active |-> 2]
    /\ Len(hist) >= 4 =>
          /\ hist[4].op = "stop" /\ hist[4].id = 1 /\ hist[4].active = 1
          /\ hist[4].ret \in {"True", "True after timeout"}
    /\ Len(hist) >= 5 =>
          hist[5] = [op |-> "spawn", id |-> 3, ret |-> "agent", active |-> 2]

\* The five calls of the scenario have returned.
C4_Witness ==
    /\ Len(hist) = 5
    /\ hist[5].ret = "agent"
    /\ heap[<<ScenarioUser, 1>>].status = STOPPED

\* C4 as stated: the fourth spawn call receives agent_id 4.
C4_FourthSpawnGetsId4 ==
    Len(hist) >= 5 => hist[5].ret = "agent" /\ hist[5].id = 4

\* C5: direct_agent on a record that is Starting or Running, or on an unknown
\* id, returns None and changes nothing: no record field, not the registry,
\* the id counter or the task table, and no run loop is created.
C5_RefusedDirectChangesNothing ==
    [][\A u \in AllUsers, id \in AllIds :
          (/\ direct_agent(u, id)
           /\ <<u, id>> \notin agents \/ heap[<<u, id>>].status \in {STARTING, RUNNING})
              => /\ out' = "None"
                 /\ heap' = heap /\ agents' = agents /\ counters' = counters
                 /\ tasks' = tasks /\ task' = task /\ issued' = issued]_vars

\* A direct_agent was just refused when every record it could name was active.
C5_Witness ==
    /\ out = "None"
    /\ \A k \in MainKeys : k \in agents /\ is_active(heap[k])

\* C6: direct_agent on a record that is not active returns that record, under
\* the same id, with status Starting, the message as task_description,
\* completed_at, result_summary, error_message and last_activity cleared and
\* session_id, cost_usd and files_changed as they were; it creates one task
\* and registers it; the executor call made by a task's first step is given
\* the session_id the record holds, the one its previous run stored.
C6_DirectRespawns ==
    /\ [][\A u \in AllUsers, id \in AllIds :
            LET k == <<u, id>> IN
            (direct_agent(u, id) /\ k \in agents /\ heap[k].status \notin {STARTING, RUNNING})
                => /\ out' = "agent"
                   /\ heap'[k].status = STARTING
                   /\ heap'[k].task_description = DirectMessage
                   /\ heap'[k].completed_at = NULL
                   /\ heap'[k].result_summary = NULL
                   /\ heap'[k].error_message = NULL
                   /\ heap'[k].last_activity = NULL
                   /\ heap'[k].session_id = heap[k].session_id
                   /\ heap'[k].cost_usd = heap[k].cost_usd
                   /\ heap'[k].files_changed = heap[k].files_changed
                   /\ \A j \in Keys \ {k} : heap'[j] = heap[j]
                   /\ agents' = agents /\ counters' = counters /\ issued' = issued
                   /\ \E i \in Runs :
                        /\ task[k][i].pc = "free" /\ task'[k][i].pc = "new"
                        /\ tasks'[k] = i
                        /\ \A x \in TaskIds \ {<<k, i>>} :
                              task'[x[1]][x[2]] = task[x[1]][x[2]]]_vars
    /\ [][\A k \in Keys, i \in Runs :
            (task[k][i].pc = "new" /\ task'[k][i].pc = "exec")
                => task'[k][i].sess = heap[k].session_id]_vars

\* The run of a respawned record is in the executor, called with the token
\* that the record's previous run stored.
C6_Witness ==
    \E k \in MainKeys, i \in Runs :
        /\ task[k][i].pc = "exec"
        /\ task[k][i].sess \in Tokens
        /\ heap[k].task_description = DirectMessage
        /\ heap[k].status = RUNNING

\* C7: stop_agent on an unknown id, or on a record that is not Starting or
\* Running, returns False and changes nothing: no record field, no
\* cancellation request, the task table as it was.
C7_RefusedStopChangesNothing ==
    [][\A u \in AllUsers, id \in AllIds :
          (/\ stop_agent(u, id)
           /\ <<u, id>> \notin agents \/ heap[<<u, id>>].status \notin {STARTING, RUNNING})
              => /\ out' = "False"
                 /\ heap' = heap /\ agents' = agents /\ counters' = counters
                 /\ tasks' = tasks /\ task' = task /\ issued' = issued]_vars

\* A stop_agent was just refused when every record it could name was
\* registered and not active.
C7_Witness ==
    /\ out = "False"
    /\ \A k \in MainKeys : k \in agents /\ ~is_active(heap[k])

\* C8: a stop_agent that found an active record returns: a call suspended in
\* wait_for resumes, whether or not the execution observes the cancellation;
\* it returns True, and when it returns the record is Stopped with
\* completed_at set.
C8_StopReturns ==
    /\ (\E x \in TaskIds : task[x[1]][x[2]].waiters > 0)
          ~> (\A x \in TaskIds : task[x[1]][x[2]].waiters = 0)
    /\ [][\A k \in Keys, i \in Runs :
            stop_resume(k, i)
                => /\ out' \in {"True", "True after timeout"}
                   /\ heap'[k].status = STOPPED
                   /\ heap'[k].completed_at = Now]_vars
    /\ [][\A u \in AllUsers, id \in AllIds :
            (stop_agent(u, id) /\ out' = "True")
                => /\ heap'[<<u, id>>].status = STOPPED
                   /\ heap'[<<u, id>>].completed_at = Now]_vars

\* A stop_agent has returned True after the timeout: the execution swallowed
\* the cancellation and is still in the executor.
C8_Witness ==
    /\ out = "True after timeout"
    /\ \E k \in MainKeys, i \in Runs :
          /\ task[k][i].pc = "exec"
          /\ ~task[k][i].cancelReq
          /\ tasks[k] = i
          /\ heap[k].status = STOPPED
          /\ heap[k].completed_at = Now

\* The step in which the task of a run ends cancelled.
RunCancelled(k, i) == task[k][i].pc \in LivePcs /\ task'[k][i].pc = "cancelled"

\* C9 (as the code behaves): a run cancelled after its first step ends with
\* the record Stopped and completed_at set.  A run cancelled before its first
\* step ends without touching the record: the stop_agent that asked for the
\* cancellation is still suspended and marks the record Stopped when it
\* resumes.  on_complete is never called by a run that ends cancelled, and a
\* step that calls it leaves the record Completed or Failed.
C9_CancelledRun ==
    /\ [][\A k \in Keys, i \in Runs :
            RunCancelled(k, i)
                => /\ task'[k][i].calls = 0
                   /\ IF task[k][i].pc = "new"
                      THEN heap' = heap /\ task'[k][i].waiters > 0
                      ELSE /\ heap'[k].status = STOPPED
                           /\ heap'[k].completed_at = Now]_vars
    /\ [][\A k \in Keys, i \in Runs :
            (task[k][i].pc # "free" /\ task'[k][i].calls > task[k][i].calls)
                => heap'[k].status \in {COMPLETED, FAILED}]_vars

\* A run that had started was cancelled by a stop_agent that has not resumed
\* yet: the record was marked by the run loop.
C9_Witness ==
    \E k \in MainKeys, i \in Runs :
        /\ task[k][i].pc = "cancelled"
        /\ task[k][i].waiters > 0
        /\ task[k][i].calls = 0
        /\ heap[k].status = STOPPED
        /\ heap[k].completed_at = Now

\* C9 as stated: every run that ends cancelled leaves the record Stopped with
\* completed_at set.
C9_CancelledRunEndsStopped ==
    [][\A k \in Keys, i \in Runs :
          RunCancelled(k, i)
              => /\ heap'[k].status = STOPPED
                 /\ heap'[k].completed_at = Now]_vars

\* C10: when the executor returns with is_error true the record becomes
\* Failed with error_message the returned content and completed_at set; when
\* it returns with is_error false the record becomes Completed; in both cases
\* on_complete is called exactly once by that run.
C10_ExecutorResult ==
    /\ [][\A k \in Keys, i \in Runs, tok \in Tokens, c \in Costs :
            /\ ExecReturn(k, i, tok, c, TRUE)
                  => /\ heap'[k].status = FAILED
                     /\ heap'[k].error_message = Content
                     /\ heap'[k].completed_at = Now
                     /\ task'[k][i].calls = 1
            /\ ExecReturn(k, i, tok, c, FALSE)
                  => /\ heap'[k].status = COMPLETED
                     /\ heap'[k].error_message = heap[k].error_message
                     /\ heap'[k].completed_at = Now
                     /\ task'[k][i].calls = 1]_vars
    /\ [][\A k \in Keys, i \in Runs :
            (task[k][i].pc \in {"complete", "complete_exc", "finished"}
                 /\ task'[k][i].pc # "free")
                => task'[k][i].calls = task[k][i].calls]_vars

\* A run whose executor returned an error has ended: the record is Failed
\* with the returned content and on_complete was called once.
C10_Witness ==
    \E k \in MainKeys, i \in Runs :
        /\ task[k][i].pc = "finished"
        /\ task[k][i].calls = 1
        /\ heap[k].status = FAILED
        /\ heap[k].error_message = Content
        /\ heap[k].completed_at = Now

\* What a call of spawn_agent, direct_agent or stop_agent can hand back to
\* its caller: a record, the admission error, None, False or True.
Returned == {"agent", "ValueError", "None", "False", "True", "True after timeout"}

\* C11: when the executor raises something other than a cancellation, the run
\* loop sets the record Failed with the error text and completed_at, and
\* calls on_complete; no other record changes; the run then ends by
\* returning, so the failure reaches no caller: calls keep returning only
\* their ordinary values.
C11_FailureAbsorbed ==
    /\ [][\A k \in Keys, i \in Runs :
            ExecRaise(k, i)
                => /\ heap'[k].status = FAILED
                   /\ heap'[k].error_message = ExcText
                   /\ heap'[k].completed_at = Now
                   /\ task'[k][i].calls = task[k][i].calls + 1
                   /\ task'[k][i].pc = "complete_exc"
                   /\ \A j \in Keys \ {k} : heap'[j] = heap[j]
                   /\ agents' = agents /\ counters' = counters /\ tasks' = tasks]_vars
    /\ [][\A k \in Keys, i \in Runs :
            task[k][i].pc = "complete_exc"
                => task'[k][i].pc \in {"complete_exc", "finished"}]_vars
    /\ [](out \in Returned \cup {"init", "await", Internal})

\* A run whose executor raised has ended by returning: the record is Failed
\* with the error text and on_complete was called once.
C11_Witness ==
    \E k \in MainKeys, i \in Runs :
        /\ task[k][i].pc = "finished"
        /\ task[k][i].calls = 1
        /\ heap[k].status = FAILED
        /\ heap[k].error_message = ExcText
        /\ heap[k].completed_at = Now

\* Two update_status calls made one after the other for the same process,
\* less than the minimum interval apart, on a process that has its message.
UpdatePair(n) ==
    /\ n + 1 <= Len(hist)
    /\ hist[n].op = "update_status" /\ hist[n + 1].op = "update_status"
    /\ hist[n].key = hist[n + 1].key
    /\ hist[n + 1].at - hist[n].at < MIN_EDIT_INTERVAL
    /\ status_message_id[hist[n].key] # NULL

\* C12: two update_status calls less than the minimum interval apart make
\* exactly one edit, and it carries the activity of the second call; a
\* flush_pending made next, once the interval has passed, makes no edit.
\* The code sends the first activity at once when the last edit is old
\* enough, holds the second back, and sends it at the flush.
C12_LatestOfTwoSentOnce ==
    \A n \in 1..MaxCalls :
        UpdatePair(n)
            => /\ hist[n].sends = 0 /\ hist[n + 1].sends = 1
               /\ (/\ n + 2 <= Len(hist)
                   /\ hist[n + 2].op = "flush_pending"
                   /\ hist[n + 2].at - hist[n + 1].at >= MIN_EDIT_INTERVAL)
                      => hist[n + 2].sends = 0

\* A shutdown call returns in this step.
ShutdownReturns == admin.op = "shutdown" /\ admin'.op = "idle"

\* C13: when shutdown returns, get_all_agents is empty for every user and the
\* task table is empty; a shutdown called when the registry is already empty
\* (never used, or emptied by an earlier shutdown) never waits and returns
\* leaving the registry as it found it.
C13_ShutdownEmpties ==
    /\ [][ShutdownReturns =>
            /\ \A u \in AllUsers : get_all_agents(u)' = {}
            /\ \A k \in Keys : tasks'[k] = 0
            /\ admin.snap = {} => UNCHANGED mgrVars]_vars
    /\ [](admin.op = "shutdown" /\ admin.snap = {} => admin.waiting = 0)

\* shutdown has returned after it stopped a record, and a later shutdown is
\* about to return from the emptied registry.
C13_Witness ==
    /\ admin.op = "shutdown" /\ admin.snap = {} /\ admin.users = <<>>
    /\ agents = {}
    /\ \E k \in MainKeys : heap[k].status = STOPPED

\* A stop_all_agents call returns in this step.
StopAllReturns == admin.op = "stop_all" /\ admin'.op = "idle"

\* C14: when stop_all_agents returns, it returns the number of stop_agent
\* calls that returned True, at most one for each record that was active
\* when it was called, and none of those records is Starting or Running.
C14_StopAllLeavesNoneActive ==
    [][StopAllReturns =>
          /\ admin'.last.ret = admin.count
          /\ admin.count <= Cardinality(admin.snap)
          /\ \A k \in admin.snap : ~is_active(heap[k])]_vars

\* A get_user_stats call returns in this step.
StatsReturns == out' = "stats"

\* The number of the user's records whose status is in S.
CountIn(u, S) == Cardinality({id \in AllIds : <<u, id>> \in agents /\ heap[<<u, id>>].status \in S})

\* The costs of the user's records added up in id order.
CostOf(u) ==
    LET upto[n \in 0..(MaxId + 1)] ==
            IF n = 0 THEN 0
            ELSE upto[n - 1] + (IF <<u, n>> \in agents THEN heap[<<u, n>>].cost_usd ELSE 0)
    IN upto[MaxId + 1]

\* C15: get_user_stats changes nothing and returns the number of the user's
\* records, the number Starting or Running, the number Completed, the number
\* Failed and the sum of their costs; all are zero for a user with no record.
C15_StatsAggregates ==
    [][StatsReturns =>
          LET u == admin'.last.user
              r == admin'.last.ret
          IN /\ UNCHANGED mgrVars
             /\ r.total_agents = CountIn(u, AgentStatus)
             /\ r.active = CountIn(u, {STARTING, RUNNING})
             /\ r.completed = CountIn(u, {COMPLETED})
             /\ r.failed = CountIn(u, {FAILED})
             /\ r.total_cost = CostOf(u)
             /\ get_all_agents(u) = {} =>
                   r = [total_agents |-> 0, active |-> 0, completed |-> 0,
                        failed |-> 0, total_cost |-> 0]]_vars

\* get_user_stats has just returned for a user with a Starting record and a
\* Failed record that has a cost.
C15_Witness ==
    /\ out = "stats"
    /\ admin.last.ret.total_agents = 2
    /\ admin.last.ret.active = 1
    /\ admin.last.ret.failed = 1
    /\ admin.last.ret.total_cost = 1
    /\ \E k \in MainKeys : heap[k].status = STARTING

\* What the step leaves alone of user u: the records, the counter and the
\* entries of the task table.
TenantUnchanged(u) ==
    /\ counters'[u] = counters[u]
    /\ \A id \in AllIds :
          /\ (<<u, id>> \in agents') = (<<u, id>> \in agents)
          /\ heap'[<<u, id>>] = heap[<<u, id>>]
          /\ tasks'[<<u, id>>] = tasks[<<u, id>>]

\* A spawn_agent call returns in this step: no other call returns one of
\* these values without counting as a direct_agent call or moving the
\* stop_all_agents call under way.
SpawnReturns == out' \in {"agent", "ValueError"} /\ UNCHANGED <<admin, used>>

\* C16: no step, whether a spawn_agent, stop_agent, stop_all_agents or
\* direct_agent call of a user or a step of one of the user's runs, changes
\* the records, the counter or the task-table entries of another user, and a
\* spawn_agent call is refused exactly when the caller's own count of
\* active agents has reached the ceiling.
C16_TenantsIsolated ==
    [][/\ \A a, b \in AllUsers : a # b => TenantUnchanged(a) \/ TenantUnchanged(b)
       /\ SpawnReturns =>
             /\ TenantUnchanged(IF hist'[1].user = TenantA THEN TenantB ELSE TenantA)
             /\ (hist'[1].ret = "ValueError") =
                   (Cardinality(get_active_agents(hist'[1].user)) >= max_concurrent)]_vars

\* The second user's spawn_agent has just been admitted while the first
\* user's only allowed agent is active and a stop_all_agents call of the
\* first user is waiting.
C16_Witness ==
    /\ out = "agent"
    /\ hist = <<[op |-> "spawn", user |-> TenantB, ret |-> "agent"]>>
    /\ Cardinality(get_active_agents(TenantA)) = max_concurrent
    /\ admin.op = "stop_all" /\ admin.waiting # 0

\* The execution of run i of k fails in this step: run_command raises, or
\* returns a response flagged as an error.
ExecutionFails(k, i) ==
    \/ ExecRaise(k, i)
    \/ \E tok \in Tokens, c \in Costs : ExecReturn(k, i, tok, c, TRUE)

\* C17: a step in which one execution fails changes the record of that
\* process and the state of that run only: every other record, every other
\* run, the registry, the counters, the task table and the ceiling stay as
\* they were.  Calls are accepted as before: a failed record never counts
\* against the ceiling, so spawn_agent is refused only when as many records
\* as the ceiling are Starting or Running.
C17_FailureContained ==
    /\ [][\A k \in Keys, i \in Runs :
            ExecutionFails(k, i)
                => /\ heap'[k].status = FAILED
                   /\ \A j \in Keys \ {k} : heap'[j] = heap[j] /\ task'[j] = task[j]
                   /\ \A r \in Runs \ {i} : task'[k][r] = task[k][r]
                   /\ task'[k][i].pc \in LivePcs
                   /\ UNCHANGED <<agents, counters, tasks, max_concurrent>>]_vars
    /\ [][out' = "ValueError" =>
            Cardinality({k \in agents : heap[k].status \in {STARTING, RUNNING}})
                >= max_concurrent]_vars

\* With a ceiling of one agent, a spawn_agent or direct_agent call has just
\* been accepted while the user's other record is Failed with the error text
\* of its execution.
C17_Witness ==
    /\ max_concurrent = 1
    /\ out = "agent"
    /\ \E k \in MainKeys, j \in MainKeys :
          /\ k # j
          /\ heap[k].status = FAILED /\ heap[k].error_message = ExcText
          /\ heap[j].status = STARTING

\* The runs of k whose task has not finished.
LiveRuns(k) == {i \in Runs : task[k][i].pc \in LivePcs}

\* C18: a record that is Starting or Running has exactly one unfinished run,
\* and no record has two unfinished runs at the same time.
C18_OneRunPerActiveRecord ==
    \A k \in Keys :
        /\ k \in agents /\ is_active(heap[k]) => Cardinality(LiveRuns(k)) = 1
        /\ Cardinality(LiveRuns(k)) <= 1

\* C19: while a record is Starting or Running the task table holds, under
\* its key, the handle of an unfinished run, and the done callback of a run
\* leaves the entry alone when the entry is the handle of another run.
C19_HandleOfCurrentRun ==
    /\ [](\A k \in Keys :
            k \in agents /\ is_active(heap[k])
                => tasks[k] # 0 /\ task[k][tasks[k]].pc \in LivePcs)
    /\ [][\A k \in Keys, i \in Runs :
            on_task_done(k, i) /\ tasks[k] # i => tasks'[k] = tasks[k]]_vars

\* C20: a record whose status is Completed, Failed or Stopped keeps that
\* status until direct_agent sets it to Starting.
C20_TerminalOncePerRun ==
    [][\A k \in Keys :
          k \in agents /\ is_terminal(heap[k])
              => heap'[k].status \in {heap[k].status, STARTING}]_vars

\* C21: a record becomes Stopped only from Starting or Running: a record
\* that is Completed, Failed or AwaitingApproval is never changed to Stopped.
C21_StoppedOnlyFromActive ==
    [][\A k \in Keys :
          k \in agents /\ heap'[k].status = STOPPED /\ heap[k].status # STOPPED
              => heap[k].status \in {STARTING, RUNNING}]_vars

\* C22: the cost of a record is accumulated: each response of the executor
\* adds its cost to the cost the record had, so the cost never decreases and
\* is the sum of the costs of the record's runs.
C22_CostAccumulates ==
    [][\A k \in Keys, i \in Runs, tok \in Tokens, c \in Costs, e \in BOOLEAN :
          ExecReturn(k, i, tok, c, e)
              => heap'[k].cost_usd = heap[k].cost_usd + c]_vars

\* C23: no record has both a result_summary and an error_message.
C23_ResultOrError ==
    \A k \in Keys :
        k \in agents => heap[k].result_summary = NULL \/ heap[k].error_message = NULL

\* The records of user u that are Starting or Running.
ActiveOf(u) == {id \in AllIds : <<u, id>> \in agents /\ heap[<<u, id>>].status \in {STARTING, RUNNING}}

\* C24: when direct_agent is never called, no user has more active records
\* than the ceiling and no id is handed out twice; each spawn_agent call is
\* admitted exactly when the user's active records are fewer than the
\* ceiling, and then adds one active record under an id not used before:
\* of two calls made one after the other with one place left, the first is
\* admitted and the second refused.
C24_AdmissionAtomic ==
    /\ [](\A u \in AllUsers :
            /\ Cardinality(ActiveOf(u)) <= max_concurrent
            /\ \A m, n \in 1..Len(issued[u]) : m # n => issued[u][m] # issued[u][n])
    /\ [][\A u \in MainUsers :
            SpawnReturns
                => /\ (out' = "agent") = (Cardinality(ActiveOf(u)) < max_concurrent)
                   /\ out' = "agent"
                         => /\ Cardinality(ActiveOf(u)') = Cardinality(ActiveOf(u)) + 1
                            /\ \E id \in AllIds :
                                  /\ <<u, id>> \notin agents
                                  /\ ActiveOf(u)' = ActiveOf(u) \cup {id}
                   /\ out' = "ValueError" => UNCHANGED mgrVars]_vars

\* With a ceiling of two and one agent running, two spawn_agent calls were
\* made before the agent of the first took a step: the first was admitted
\* under id 2 and the second has just been refused.
C24_Witness ==
    /\ max_concurrent = 2
    /\ out = "ValueError"
    /\ issued[1] = <<1, 2>>
    /\ heap[<<1, 1>>].status = RUNNING
    /\ heap[<<1, 2>>].status = STARTING
    /\ task[<<1, 2>>][1].pc = "new"

\* The runs suspended inside run_command or inside a hook.
SuspendedRuns == {x \in TaskIds : task[x[1]][x[2]].pc \in {"exec", "complete", "complete_exc"}}

\* C25: no user's lock is held while a run is suspended inside the executor
\* or a hook, and a spawn_agent call made while runs of the user are
\* suspended is admitted in that very step when the user's active records
\* are fewer than the ceiling.
C25_LockNotHeldAcrossRuns ==
    /\ [](\A x \in SuspendedRuns : x[1][1] \notin locked)
    /\ [][\A u \in MainUsers :
            SpawnReturns /\ Cardinality(ActiveOf(u)) < max_concurrent
                => out' = "agent"]_vars

\* A spawn_agent call has just been admitted under id 2 while the run of the
\* user's first agent is suspended inside run_command.
C25_Witness ==
    /\ out = "agent"
    /\ issued[1] = <<1, 2>>
    /\ heap[<<1, 2>>].status = STARTING
    /\ <<<<1, 1>>, 1>> \in SuspendedRuns
    /\ task[<<1, 1>>][1].pc = "exec"
    /\ 1 \notin locked

\* The run of process k is over: the process exists and none of its tasks is
\* alive.
RunOver(k) ==
    /\ heap[k] # NoAgent
    /\ \A i \in Runs : task[k][i].pc \notin LivePcs

\* C26: an activity stored as pending is sent, replaced or superseded by the
\* terminal message before the run is over, whichever way the run ends: when
\* the run of a process is over nothing is pending for it.
\* The clause that catches the CancelledError calls no hook: it is violated by
\* a run stopped while an activity is pending.
C26_PendingNeverDropped ==
    \A k \in HookKeys : RunOver(k) => pending[k] = NULL

RECURSIVE IsSubsequence(_, _)
\* s is t with some of its elements left out.
IsSubsequence(s, t) ==
    IF s = <<>> THEN TRUE
    ELSE IF t = <<>> THEN FALSE
    ELSE IF Head(s) = Head(t) THEN IsSubsequence(Tail(s), Tail(t))
    ELSE IsSubsequence(s, Tail(t))

RECURSIVE Texts(_)
Texts(s) == IF s = <<>> THEN <<>> ELSE <<Head(s).text>> \o Texts(Tail(s))

\* The activities handed to update_status for process k, in order.
Produced(k) ==
    Texts(SelectSeq(hist, LAMBDA e : e.op = "update_status" /\ e.key = k))

\* The activities sent for process k by update_status or flush_pending, in
\* order.
SentActivities(k) ==
    Texts(SelectSeq(sent[k], LAMBDA e : e.by \in {"update_status", "flush_pending"}))

\* C27: for one process the activities sent by update_status or
\* flush_pending are, in order, a subsequence of the activities handed to
\* update_status: an older one is never sent after a newer one.
C27_SentInOrder ==
    \A k \in MonKeys : IsSubsequence(SentActivities(k), Produced(k))

\* Three activities were produced, the second was coalesced away and the
\* third was sent by flush_pending.
C27_Witness ==
    \E k \in MonKeys :
        /\ Len(Produced(k)) = 3
        /\ Len(SentActivities(k)) = 2
        /\ Produced(k)[2] # Produced(k)[3]
        /\ sent[k][Len(sent[k])].by = "flush_pending"
        /\ sent[k][Len(sent[k])].text = Produced(k)[3]

\* This step is a call update_status(k, a).
UpdateStep(k, a) ==
    /\ Len(hist') = Len(hist) + 1
    /\ hist'[Len(hist')].op = "update_status"
    /\ hist'[Len(hist')].key = k
    /\ hist'[Len(hist')].text = a

\* What the claim says a call update_status(k, a) does.
UpdateAsDescribed(k, a) ==
    IF clock - LastEdit(k) >= MIN_EDIT_INTERVAL
    THEN /\ pending'[k] = NULL
         /\ sent'[k] = Append(sent[k], Edit("update_status", a))
         /\ LastEdit(k)' = clock
    ELSE /\ sent'[k] = sent[k]
         /\ LastEdit(k)' = LastEdit(k)
         /\ pending'[k] = a

FlushStep(k) ==
    /\ Len(hist') = Len(hist) + 1
    /\ hist'[Len(hist')].op = "flush_pending"
    /\ hist'[Len(hist')].key = k

\* C29: a call flush_pending(k) that finds a pending value, whichever value
\* update_status stored, sends exactly that value, stamps the time and leaves
\* nothing pending; a call that finds none sends nothing and changes nothing.
\* The code tests the popped value for truth: it is violated by the empty
\* activity, which update_status stores and flush_pending discards unsent.
C29_FlushSendsPending ==
    [][\A k \in MonKeys :
          FlushStep(k) =>
              IF pending[k] # NULL
              THEN /\ sent'[k] = Append(sent[k], Edit("flush_pending", pending[k]))
                   /\ LastEdit(k)' = clock
                   /\ pending'[k] = NULL
              ELSE UNCHANGED <<sent, last_edit, pending>>]_vars

\* The terminal message of process k is rendered in this step.
ShowStep(k) ==
    /\ Len(sent'[k]) = Len(sent[k]) + 1
    /\ sent'[k][Len(sent'[k])].by = "show_completion"

\* C30: in the completion hook flush_pending comes before show_completion:
\* when the terminal message of a run is rendered, an activity that was
\* pending has been sent and nothing is pending any more, and no
\* running-state message follows the terminal message.
\* flush_pending discards a pending empty activity unsent (C29): it is
\* violated by a run that completes while the empty activity is pending.
C30_FlushBeforeCompletion ==
    /\ [][\A k \in HookKeys :
             ShowStep(k) => pending[k] = NULL /\ pending'[k] = NULL]_vars
    /\ [](\A k \in HookKeys : \A m, n \in 1..Len(sent[k]) :
             sent[k][m].by = "show_completion" => n <= m)

\* The running-state edits made for process k, in order.
RunningSends(k) ==
    SelectSeq(sent[k], LAMBDA e : e.by \in {"update_status", "flush_pending"})

C32_NoEviction ==
    [][~ShutdownReturns =>
          \A u \in AllUsers :
              /\ get_all_agents(u) \subseteq get_all_agents(u)'
              /\ \A id \in AllIds :
                    get_agent(u, id) # NoAgent => get_agent(u, id)' # NoAgent
              /\ Len(issued'[u]) > Len(issued[u])
                    => /\ <<u, counters'[u]>> \notin agents
                       /\ <<u, counters'[u]>> \in agents']_vars

\* A record that has finished is in the registry next to a record made
\* after it.
C32_Witness ==
    \E u \in AllUsers : \E id \in AllIds :
        /\ is_terminal(get_agent(u, id))
        /\ \E later \in AllIds : later > id /\ get_agent(u, later) # NoAgent

\* C33: a run calls on_complete at most once, whatever the outcome of the
\* executor and also when a hook raises.
\* on_complete is called inside the try block: when it raises an Exception
\* the except clause calls it again.
C33_CompleteHookAtMostOnce ==
    \A k \in Keys : \A i \in Runs : task[k][i].calls <= 1

\* The runs of record k that were launched and have not taken a step.
NewRuns(k) == {i \in Runs : task[k][i].pc = "new"}

\* C34: of two direct_agent calls made at the same time for a record that is
\* not active, one resets the record and launches one run and the other finds
\* the record active and returns None leaving everything as it is: no record
\* has two launched runs waiting for their first step, a call that returns
\* the record found it not active and adds exactly one run, and a call that
\* returns None changes nothing.
\* It is violated when a run of the previous execution is still alive (its
\* stop_agent timed out): between the two calls that run ends, writes Stopped
\* on the record the first call has reset, and the second call launches a
\* second run while the first one has not taken a step.
C34_OneRunPerDirect ==
    /\ [](\A k \in Keys : Cardinality(NewRuns(k)) <= 1)
    /\ [][out' = "None" => UNCHANGED <<mgrVars, issued, locked>>]_vars
    /\ [][out' = "agent" /\ UNCHANGED counters =>
             \E k \in Keys :
                 /\ ~is_active(heap[k]) /\ is_active(heap'[k])
                 /\ NewRuns(k) = {} /\ Cardinality(NewRuns(k)') = 1
                 /\ \A x \in Keys \ {k} : NewRuns(x)' = NewRuns(x)]_vars

\* C35: when shutdown returns, every run that has not finished still has its
\* record in the registry and its handle in the task table.
\* shutdown clears both tables whatever the state of the runs: it is violated
\* by a run whose executor swallowed the cancellation and outlived the five
\* seconds of stop_agent, and by a run spawned while shutdown was waiting.
C35_NoUntrackedRunAfterShutdown ==
    [][ShutdownReturns =>
          \A k \in Keys : \A i \in Runs :
              task'[k][i].pc \in LivePcs => k \in agents' /\ tasks'[k] = i]_vars

\* C36: under a scheduler that keeps running and an executor and hooks that
\* always return or raise, a record that is Starting or Running becomes
\* Completed, Failed or Stopped, whatever stop_agent and direct_agent calls
\* are made.
C36_ActiveEventuallyEnds ==
    \A k \in MainUsers \X {1} :
        (k \in agents /\ is_active(heap[k])) ~> ~is_active(heap[k])

\* A record whose run was cancelled before its first step has been marked
\* Stopped by the stop_agent call that cancelled it.
C36_Witness ==
    \E k \in MainUsers \X {1} :
        /\ heap[k].status = STOPPED
        /\ heap[k].last_activity = NULL
        /\ heap[k].session_id = NULL
        /\ out = "True"
        /\ used.stop = 1
        /\ \A i \in Runs : task[k][i].pc = "free"

\* C37: in every reachable state a record that is Starting or Running has no
\* completed_at and a record that is Completed, Failed or Stopped has one.
\* The first step of a run sets the status alone: it is violated when that
\* step comes after the record, reset by direct_agent, was marked by the
\* stop_agent or the run of the execution before.
C37_CompletedAtMatchesStatus ==
    \A k \in agents :
        /\ is_active(heap[k]) => heap[k].completed_at = NULL
        /\ is_terminal(heap[k]) => heap[k].completed_at # NULL

====
